---- MODULE Spec2Model ----
(***************************************************************************)
(* Model of the Pomodoro timer of src/src/App.tsx: the App component's     *)
(* state hooks, its two passive effects (the timer effect and the reset    *)
(* effect), the click handlers, the setInterval callback, and the settings *)
(* form (SettingsModal).                                                    *)
(*                                                                         *)
(* React semantics the code relies on, as modelled here:                    *)
(*  - a click handler's state updates are rendered and committed in the     *)
(*    same task, together with every update still pending, and the passive  *)
(*    effects of that commit are flushed in the same task;                  *)
(*  - a state update made by a passive effect or by the interval callback   *)
(*    is queued and rendered by a later task (Render); the passive effects  *)
(*    of that commit are flushed by a still later task (FlushEffects);      *)
(*  - an effect is re-run (cleanup first) only when one of its dependencies *)
(*    changed by Object.is; a state update to the current value renders     *)
(*    nothing;                                                              *)
(*  - the interval callback may run whenever its interval is not cleared;    *)
(*  - an error that escapes a passive effect unmounts the component tree    *)
(*    (there is no error boundary): no handler, callback or task of the     *)
(*    component acts after it.                                              *)
(* new AudioContext() and the calls on it may throw; whether they do is an  *)
(* input of every step that runs effects.                                   *)
(* While the settings form is shown, its backdrop (fixed inset-0 z-50, with  *)
(* onClick = onClose) covers the page, so that the buttons of the page are   *)
(* clicked only while the form is closed.                                    *)
(***************************************************************************)
EXTENDS Integers, Sequences, FiniteSets

\* type Mode (App.tsx line 5)
Modes == {"pomodoro", "shortBreak", "longBreak"}

DEFAULT_SETTINGS == [pomodoro |-> 25 * 60, shortBreak |-> 5 * 60, longBreak |-> 15 * 60]

(***************************************************************************)
(* Bounds of the model.                                                     *)
(***************************************************************************)
\* ticks are delivered only while the countdown is less than this far below
\* the configured duration
MaxElapsed == 3
\* the edits of the settings form: mode, field, and the value typed into it
\* (e.target.value)
Edits == { <<"pomodoro", "m", <<>> >>,
           <<"pomodoro", "s", <<"2">> >>,
           <<"pomodoro", "m", <<"-", "5">> >> }
\* the durations, in seconds, of the configurations the form is opened on: up
\* to 91 minutes and 1 second for a mode
MaxDuration == 5461
\* the mode buttons that are clicked
ModeInputs == {"pomodoro", "shortBreak"}
\* the themes that are chosen in the theme panel
ThemeInputs == {"zen"}

VARIABLES
  mode,           \* useState<Mode>
  settings,       \* useState<Settings>
  timeLeft,       \* useState(settings.pomodoro)
  isActive,       \* useState(false)
  showSettings,   \* useState(false)
  soundEnabled,   \* useState(true)
  showThemes,     \* useState(false)
  themeId,        \* useState<ThemeName>('brutalist')
  localSettings,  \* SettingsModal's useState; Unmounted while the form is closed
  timerRef,       \* timerRef.current: "null", or the last interval id, "live" or "cleared"
  liveIntervals,  \* number of intervals created by setInterval and not cleared
  qTimeLeft,      \* queued setTimeLeft updates, composed: [set, val, dec]
  qIsActive,      \* queued setIsActive update: "none", "true" or "false"
  pendingEffects, \* passive effects of the last commit that are not flushed yet
  completions,    \* completion reactions run since the last command
  tones,          \* notification sounds played since the last command
  audioErrors,    \* "Audio playback failed" logged since the last command
  ticks,          \* interval callbacks run since the last command
  uncaught,       \* an error escaped a passive effect
  lastCmd,        \* the last command: [op, arg, twice]
  lastChange      \* the last handleChange of the shown form: [typed, k, field]

vars == <<mode, settings, timeLeft, isActive, showSettings, soundEnabled,
          showThemes, themeId, localSettings,
          timerRef, liveIntervals, qTimeLeft, qIsActive, pendingEffects,
          completions, tones, audioErrors, ticks, uncaught, lastCmd, lastChange>>

(***************************************************************************)
(* The update queue of the two hooks that effects and the interval write.   *)
(***************************************************************************)
NoTimeUpdate == [set |-> FALSE, val |-> 0, dec |-> 0]

\* setTimeLeft(v)
QSetTime(v) == [set |-> TRUE, val |-> v, dec |-> 0]

\* setTimeLeft(prev => prev - 1) appended to the queue q
QDecTime(q) == [q EXCEPT !.dec = @ + 1]

\* the value of timeLeft the next render computes from the queue q
ApplyTime(q, t) == (IF q.set THEN q.val ELSE t) - q.dec

\* the value of isActive the next render computes from the queue q
ApplyActive(q, a) == IF q = "none" THEN a ELSE (q = "true")

QBool(b) == IF b THEN "true" ELSE "false"

(***************************************************************************)
(* playNotificationSound, the timer effect and the reset effect.  They act  *)
(* on a record r = [timerRef, liveIntervals, qTimeLeft, qIsActive,          *)
(* completions, tones, audioErrors, uncaught, audioThrows] (audioThrows:    *)
(* the audio calls of this step throw).                                     *)
(***************************************************************************)
\* if (timerRef.current) clearInterval(timerRef.current)
ClearInterval(r) ==
  IF r.timerRef = "live"
  THEN [r EXCEPT !.timerRef = "cleared", !.liveIntervals = @ - 1]
  ELSE r

\* timerRef.current = window.setInterval(...)
SetInterval(r) ==
  [r EXCEPT !.timerRef = "live", !.liveIntervals = @ + 1]

\* playNotificationSound playing whatever soundEnabled is
playNotificationSound_Always(r, snd) ==
  IF r.audioThrows THEN [r EXCEPT !.audioErrors = @ + 1] ELSE [r EXCEPT !.tones = @ + 1]

\* playNotificationSound without its try / catch
playNotificationSound_NoCatch(r, snd) ==
  IF ~snd THEN r
  ELSE IF r.audioThrows THEN [r EXCEPT !.uncaught = TRUE]
  ELSE [r EXCEPT !.tones = @ + 1]

\* if (!soundEnabled) return; try { the tones } catch (e) { console.error }
playNotificationSound(r, snd) ==
  IF ~snd THEN r
  ELSE IF r.audioThrows THEN [r EXCEPT !.audioErrors = @ + 1]
  ELSE [r EXCEPT !.tones = @ + 1]

\* the timer effect without its completion branch
TimerEffect_NoCompletion(r, a, t, snd) ==
  IF a /\ t > 0 THEN SetInterval(r) ELSE r

\* the timer effect creating an interval at timeLeft = 0 as well
TimerEffect_IntervalAtZero(r, a, t, snd) ==
  IF a /\ t >= 0 THEN SetInterval(r) ELSE r

\* the timer effect completing only when the sound is enabled
TimerEffect_SoundGated(r, a, t, snd) ==
  IF a /\ t > 0
  THEN SetInterval(r)
  ELSE IF a /\ t = 0 /\ snd
  THEN ClearInterval(playNotificationSound(
         [r EXCEPT !.qIsActive = "false", !.completions = @ + 1], snd))
  ELSE r

\* body of the timer effect, run for a render with isActive = a, timeLeft = t;
\* an error thrown by playNotificationSound skips the rest of the body
TimerEffect(r, a, t, snd) ==
  IF a /\ t > 0
  THEN SetInterval(r)
  ELSE IF a /\ t = 0
  THEN LET r1 == playNotificationSound(
                   [r EXCEPT !.qIsActive = "false", !.completions = @ + 1], snd)
       IN IF r1.uncaught THEN r1 ELSE ClearInterval(r1)
  ELSE r

\* a cleanup that leaves the interval running
TimerCleanup_Leak(r) == r

\* cleanup of the timer effect
TimerCleanup(r) == ClearInterval(r)

\* body of the reset effect, run for a render with mode = m, settings = s
ResetEffect(r, m, s) ==
  [r EXCEPT !.qTimeLeft = QSetTime(s[m]), !.qIsActive = "false"]

\* the passive effects of one commit without the cleanups
FlushPassive_NoCleanup(effs, r, m, s, t, a, snd) ==
  LET r2 == IF "timer" \in effs THEN TimerEffect(r, a, t, snd) ELSE r
  IN IF "reset" \in effs /\ ~r2.uncaught THEN ResetEffect(r2, m, s) ELSE r2

\* the passive effects effs of one commit: cleanups first, then the bodies in
\* the order the effects are declared
FlushPassive(effs, r, m, s, t, a, snd) ==
  LET r1 == IF "timer" \in effs THEN TimerCleanup(r) ELSE r
      r2 == IF "timer" \in effs THEN TimerEffect(r1, a, t, snd) ELSE r1
  IN IF "reset" \in effs /\ ~r2.uncaught THEN ResetEffect(r2, m, s) ELSE r2

\* the effects whose dependencies changed between two renders:
\* [isActive, timeLeft, playNotificationSound] (which depends on
\* [soundEnabled]) and [mode, settings]; replaced: settings is a new object
ChangedEffects(m1, t1, a1, snd1, m2, t2, a2, snd2, replaced) ==
  (IF a1 # a2 \/ t1 # t2 \/ snd1 # snd2 THEN {"timer"} ELSE {})
  \cup (IF m1 # m2 \/ replaced THEN {"reset"} ELSE {})

Rec == [timerRef |-> timerRef, liveIntervals |-> liveIntervals,
        qTimeLeft |-> qTimeLeft, qIsActive |-> qIsActive,
        completions |-> completions, tones |-> tones, audioErrors |-> audioErrors,
        uncaught |-> uncaught, audioThrows |-> FALSE]

QueueEmpty == qTimeLeft = NoTimeUpdate /\ qIsActive = "none"

Settled == QueueEmpty /\ pendingEffects = {}

(***************************************************************************)
(* A click: the handler's updates h = [mode, settings, replaced, setTime,   *)
(* time, setActive, active, sound, command] (setTime, setActive: the       *)
(* handler writes the hook; command: it is a command of the countdown), the *)
(* render of all pending updates, the commit and its passive effects.  A    *)
(* render that changes no dependency of an effect runs no effect.           *)
(***************************************************************************)
\* the state after the click of h in a render whose soundEnabled is snd1
ClickResult(h, snd1, throws) ==
  LET m2 == h.mode
      s2 == h.settings
      snd2 == h.sound
      qT == IF h.setTime THEN QSetTime(h.time) ELSE qTimeLeft
      qA == IF h.setActive THEN QBool(h.active) ELSE qIsActive
      r0 == [Rec EXCEPT !.completions = IF h.command THEN 0 ELSE @,
                        !.tones = IF h.command THEN 0 ELSE @,
                        !.audioErrors = IF h.command THEN 0 ELSE @,
                        !.audioThrows = throws]
      \* effects still pending from the last commit run before the render
      r1 == FlushPassive(pendingEffects, [r0 EXCEPT !.qTimeLeft = qT, !.qIsActive = qA],
                         mode, settings, timeLeft, isActive, snd1)
      t3 == ApplyTime(r1.qTimeLeft, timeLeft)
      a3 == ApplyActive(r1.qIsActive, isActive)
      effs == ChangedEffects(mode, timeLeft, isActive, snd1, m2, t3, a3, snd2, h.replaced)
      r2 == FlushPassive(effs, [r1 EXCEPT !.qTimeLeft = NoTimeUpdate, !.qIsActive = "none"],
                         m2, s2, t3, a3, snd2)
  IN [mode |-> m2, settings |-> s2, soundEnabled |-> snd2, timeLeft |-> t3,
      isActive |-> a3, r |-> r2]

Click(h) ==
  /\ ~uncaught
  /\ \E throws \in BOOLEAN :
       LET c == ClickResult(h, soundEnabled, throws)
       IN /\ mode' = c.mode
          /\ settings' = c.settings
          /\ soundEnabled' = c.soundEnabled
          /\ timeLeft' = c.timeLeft
          /\ isActive' = c.isActive
          /\ timerRef' = c.r.timerRef
          /\ liveIntervals' = c.r.liveIntervals
          /\ qTimeLeft' = c.r.qTimeLeft
          /\ qIsActive' = c.r.qIsActive
          /\ completions' = c.r.completions
          /\ tones' = c.r.tones
          /\ audioErrors' = c.r.audioErrors
          /\ uncaught' = c.r.uncaught
          /\ pendingEffects' = {}

\* a handler after which settings is a new object in every render
NoWrite_NewSettings ==
  [mode |-> mode, settings |-> settings, replaced |-> TRUE,
   setTime |-> FALSE, time |-> 0, setActive |-> FALSE, active |-> FALSE,
   sound |-> soundEnabled, command |-> FALSE]

\* a handler that writes nothing
NoWrite == [mode |-> mode, settings |-> settings, replaced |-> FALSE,
            setTime |-> FALSE, time |-> 0, setActive |-> FALSE, active |-> FALSE,
            sound |-> soundEnabled, command |-> FALSE]

\* what the handlers of the session write
\* setMode(m)
SelectModeWrites(m) == [NoWrite EXCEPT !.mode = m]

\* toggleTimer reloading the full duration as well
ToggleWrites_Reload ==
  [NoWrite EXCEPT !.setActive = TRUE, !.active = ~isActive,
                  !.setTime = TRUE, !.time = settings[mode]]

\* toggleTimer = () => setIsActive(!isActive)
ToggleWrites == [NoWrite EXCEPT !.setActive = TRUE, !.active = ~isActive]

\* resetTimer
ResetWrites == [NoWrite EXCEPT !.setActive = TRUE, !.active = FALSE,
                               !.setTime = TRUE, !.time = settings[mode]]

\* setSoundEnabled(!soundEnabled)
SoundWrites == [NoWrite EXCEPT !.sound = ~soundEnabled]

\* handleSaveSettings(c): setSettings(c)
SaveWrites(c) == [NoWrite EXCEPT !.settings = c, !.replaced = TRUE]

\* no handleChange since the form was shown
NoChange == [typed |-> <<>>, k |-> "none", field |-> "none"]

\* a command of the countdown: the click, recorded as the last command (twice:
\* the same command came right before it, with no tick in between)
Command(h, op, arg) ==
  /\ Click([h EXCEPT !.command = TRUE])
  /\ lastCmd' = [op |-> op, arg |-> arg,
                 twice |-> (lastCmd.op = op /\ ticks = 0 /\ Settled)]
  /\ ticks' = 0

(***************************************************************************)
(* The settings form.  A field of localSettings is <<n>> for the number n   *)
(* and <<>> for the empty string; a typed value is a sequence of            *)
(* characters.                                                              *)
(***************************************************************************)
Digits == {"0", "1", "2", "3", "4", "5", "6", "7", "8", "9"}

DigitVal(c) ==
  CASE c = "0" -> 0 [] c = "1" -> 1 [] c = "2" -> 2 [] c = "3" -> 3 [] c = "4" -> 4
    [] c = "5" -> 5 [] c = "6" -> 6 [] c = "7" -> 7 [] c = "8" -> 8 [] c = "9" -> 9

\* the value of the longest prefix of digits of str, from the left; <<>>: no digit
RECURSIVE ParseDigits(_, _, _)
ParseDigits(str, acc, seen) ==
  IF str # <<>> /\ Head(str) \in Digits
  THEN ParseDigits(Tail(str), acc * 10 + DigitVal(Head(str)), TRUE)
  ELSE IF seen THEN <<acc>> ELSE <<>>

\* parseInt(value, 10): <<n>>, or <<>> for NaN
ParseInt(str) ==
  IF str # <<>> /\ Head(str) = "-"
  THEN LET p == ParseDigits(Tail(str), 0, FALSE)
       IN IF p = <<>> THEN <<>> ELSE <<0 - p[1]>>
  ELSE ParseDigits(str, 0, FALSE)

\* x || 0 for a field x
OrZero(f) == IF f = <<>> THEN 0 ELSE f[1]

\* the form showing the minutes rounded to the nearest
InitLocalSettings_Rounded(s) ==
  [k \in Modes |-> [m |-> <<(s[k] + 30) \div 60>>, s |-> <<s[k] % 60>>]]

\* useState initial value of SettingsModal
InitLocalSettings(s) ==
  [k \in Modes |-> [m |-> <<s[k] \div 60>>, s |-> <<s[k] % 60>>]]

\* the value of localSettings while the form is not mounted
Unmounted == [k \in Modes |-> [m |-> <<>>, s |-> <<>>]]

\* handleSave without the fallback to the default
FinalSetting_NoDefault(l, k) == (OrZero(l[k].m) * 60) + OrZero(l[k].s)

\* one entry of finalSettings in handleSave
FinalSetting(l, k) ==
  LET total == (OrZero(l[k].m) * 60) + OrZero(l[k].s)
  IN IF total # 0 THEN total ELSE DEFAULT_SETTINGS[k]

finalSettings(l) == [k \in Modes |-> FinalSetting(l, k)]

Init ==
  /\ mode = "pomodoro"
  /\ settings = DEFAULT_SETTINGS
  /\ timeLeft = DEFAULT_SETTINGS.pomodoro
  /\ isActive = FALSE
  /\ showSettings = FALSE
  /\ soundEnabled = TRUE
  /\ showThemes = FALSE
  /\ themeId = "brutalist"
  /\ localSettings = Unmounted
  /\ timerRef = "null"
  /\ liveIntervals = 0
  /\ qTimeLeft = NoTimeUpdate
  /\ qIsActive = "none"
  /\ pendingEffects = {}
  /\ completions = 0
  /\ tones = 0
  /\ audioErrors = 0
  /\ ticks = 0
  /\ uncaught = FALSE
  /\ lastCmd = [op |-> "none", arg |-> "none", twice |-> FALSE]
  /\ lastChange = NoChange

\* onClick={() => setMode(m)}
SelectMode ==
  \E m \in ModeInputs :
    /\ ~showSettings
    /\ Command(SelectModeWrites(m), "selectMode", m)
    /\ UNCHANGED <<showSettings, showThemes, themeId, localSettings, lastChange>>

\* toggleTimer = () => setIsActive(!isActive)
toggleTimer ==
  /\ ~showSettings
  /\ Command(ToggleWrites, "toggleRun", "none")
  /\ UNCHANGED <<showSettings, showThemes, themeId, localSettings, lastChange>>

\* resetTimer
resetTimer ==
  /\ ~showSettings
  /\ Command(ResetWrites, "reset", "none")
  /\ UNCHANGED <<showSettings, showThemes, themeId, localSettings, lastChange>>

\* onClick={() => setSoundEnabled(!soundEnabled)}
ToggleSound ==
  /\ ~showSettings
  /\ Click(SoundWrites)
  /\ UNCHANGED <<showSettings, showThemes, themeId, localSettings, ticks, lastCmd,
                 lastChange>>

\* onClick={() => setShowSettings(true)}; SettingsModal mounts
OpenSettings ==
  /\ ~showSettings
  /\ Click(NoWrite)
  /\ showSettings' = TRUE
  /\ localSettings' = InitLocalSettings(settings)
  /\ lastChange' = NoChange
  /\ UNCHANGED <<showThemes, themeId, ticks, lastCmd>>

\* onClose={() => setShowSettings(false)}; SettingsModal unmounts
CloseSettings ==
  /\ showSettings
  /\ Click(NoWrite)
  /\ showSettings' = FALSE
  /\ localSettings' = Unmounted
  /\ lastChange' = NoChange
  /\ UNCHANGED <<showThemes, themeId, ticks, lastCmd>>

\* handleChange clamping a negative number to 0
ChangeField_Clamp(l, k, field, value) ==
  LET num == ParseInt(value)
  IN IF num # <<>>
     THEN [l EXCEPT ![k][field] = IF num[1] >= 0 THEN num ELSE <<0>>]
     ELSE IF value = <<>>
     THEN [l EXCEPT ![k][field] = <<>>]
     ELSE l

\* handleChange(mode, field, value) on the form l: the new localSettings
ChangeField(l, k, field, value) ==
  LET num == ParseInt(value)
  IN IF num # <<>> /\ num[1] >= 0
     THEN [l EXCEPT ![k][field] = num]
     ELSE IF value = <<>>
     THEN [l EXCEPT ![k][field] = <<>>]
     ELSE l

\* handleChange calls setLocalSettings
ChangeWrites(value) ==
  LET num == ParseInt(value)
  IN (num # <<>> /\ num[1] >= 0) \/ value = <<>>

handleChange ==
  /\ showSettings
  /\ \E e \in Edits :
       /\ localSettings' = ChangeField(localSettings, e[1], e[2], e[3])
       /\ lastChange' = [typed |-> e[3], k |-> e[1], field |-> e[2]]
       /\ IF ChangeWrites(e[3])
          THEN Click(NoWrite)
          ELSE /\ ~uncaught
               /\ UNCHANGED <<mode, settings, timeLeft, isActive, soundEnabled,
                               timerRef, liveIntervals, qTimeLeft, qIsActive,
                               pendingEffects, completions, tones, audioErrors,
                               uncaught>>
  /\ UNCHANGED <<showSettings, showThemes, themeId, ticks, lastCmd>>

\* handleSave, which calls onSave = handleSaveSettings
handleSave ==
  /\ showSettings
  /\ Command(SaveWrites(finalSettings(localSettings)), "applyConfig", finalSettings(localSettings))
  /\ showSettings' = FALSE
  /\ localSettings' = Unmounted
  /\ lastChange' = NoChange
  /\ UNCHANGED <<showThemes, themeId>>

\* onClick={() => setShowThemes(!showThemes)}
ToggleThemes ==
  /\ ~showSettings
  /\ Click(NoWrite)
  /\ showThemes' = ~showThemes
  /\ UNCHANGED <<showSettings, themeId, localSettings, ticks, lastCmd, lastChange>>

\* onClick={() => { setThemeId(t); setShowThemes(false); }} in the theme panel
SelectTheme ==
  /\ ~showSettings
  /\ showThemes
  /\ \E t \in ThemeInputs :
       /\ Click(NoWrite)
       /\ themeId' = t
       /\ showThemes' = FALSE
  /\ UNCHANGED <<showSettings, localSettings, ticks, lastCmd, lastChange>>

\* the interval callback: setTimeLeft((prev) => prev - 1)
Tick ==
  /\ ~uncaught
  /\ liveIntervals > 0
  /\ settings[mode] - ApplyTime(qTimeLeft, timeLeft) < MaxElapsed
  /\ qTimeLeft' = QDecTime(qTimeLeft)
  /\ ticks' = ticks + 1
  /\ UNCHANGED <<mode, settings, timeLeft, isActive, showSettings, soundEnabled,
                 showThemes, themeId,
                 localSettings, timerRef, liveIntervals, qIsActive, pendingEffects,
                 completions, tones, audioErrors, uncaught, lastCmd, lastChange>>

\* the render of the queued updates, and its commit
Render ==
  /\ ~uncaught
  /\ ~QueueEmpty
  /\ pendingEffects = {}
  /\ timeLeft' = ApplyTime(qTimeLeft, timeLeft)
  /\ isActive' = ApplyActive(qIsActive, isActive)
  /\ qTimeLeft' = NoTimeUpdate
  /\ qIsActive' = "none"
  /\ pendingEffects' = ChangedEffects(mode, timeLeft, isActive, soundEnabled,
                                      mode, timeLeft', isActive', soundEnabled, FALSE)
  /\ UNCHANGED <<mode, settings, showSettings, soundEnabled, showThemes, themeId,
                 localSettings, timerRef,
                 liveIntervals, completions, tones, audioErrors, ticks, uncaught,
                 lastCmd, lastChange>>

\* the passive effects of the last commit
FlushEffects ==
  /\ ~uncaught
  /\ pendingEffects # {}
  /\ \E throws \in BOOLEAN :
     LET r == FlushPassive(pendingEffects, [Rec EXCEPT !.audioThrows = throws],
                           mode, settings, timeLeft, isActive, soundEnabled)
     IN /\ timerRef' = r.timerRef
        /\ liveIntervals' = r.liveIntervals
        /\ qTimeLeft' = r.qTimeLeft
        /\ qIsActive' = r.qIsActive
        /\ completions' = r.completions
        /\ tones' = r.tones
        /\ audioErrors' = r.audioErrors
        /\ uncaught' = r.uncaught
  /\ pendingEffects' = {}
  /\ UNCHANGED <<mode, settings, timeLeft, isActive, showSettings, soundEnabled,
                 showThemes, themeId, localSettings, ticks, lastCmd, lastChange>>

Next ==
  \/ SelectMode
  \/ toggleTimer
  \/ resetTimer
  \/ ToggleSound
  \/ OpenSettings
  \/ CloseSettings
  \/ handleChange
  \/ handleSave
  \/ ToggleThemes
  \/ SelectTheme
  \/ Tick
  \/ Render
  \/ FlushEffects

Spec == Init /\ [][Next]_vars

\* the session at rest after a configuration was saved in which one mode has
\* the duration d
InitForm ==
  \E k \in Modes, d \in 1 .. MaxDuration :
    /\ mode = "pomodoro"
    /\ settings = [DEFAULT_SETTINGS EXCEPT ![k] = d]
    /\ timeLeft = settings.pomodoro
    /\ isActive = FALSE
    /\ showSettings = FALSE
    /\ soundEnabled = TRUE
    /\ showThemes = FALSE
    /\ themeId = "brutalist"
    /\ localSettings = Unmounted
    /\ timerRef = "null"
    /\ liveIntervals = 0
    /\ qTimeLeft = NoTimeUpdate
    /\ qIsActive = "none"
    /\ pendingEffects = {}
    /\ completions = 0
    /\ tones = 0
    /\ audioErrors = 0
    /\ ticks = 0
    /\ uncaught = FALSE
    /\ lastCmd = [op |-> "none", arg |-> "none", twice |-> FALSE]
    /\ lastChange = NoChange

\* the settings form opened, closed and saved, and the render its save queues
\* (no effect of that render is ever pending: the session is at rest)
NextForm ==
  \/ OpenSettings
  \/ CloseSettings
  \/ handleSave
  \/ Render

SpecForm == InitForm /\ [][NextForm]_vars

\* the clock keeps firing a live interval, and React runs its scheduled tasks
SpecFair == Spec /\ WF_vars(Tick) /\ WF_vars(Render) /\ WF_vars(FlushEffects)

(***************************************************************************)
(* The claims.                                                              *)
(***************************************************************************)
\* a step of the clock or of a React task, as opposed to a click
TaskStep == Tick \/ Render \/ FlushEffects

\* C1 (as claimed): once selectMode(m) has settled, for any m, the active mode
\* is m, the remaining time is the configured duration of m and the countdown
\* is not running.
C1_SelectModeResets ==
  (lastCmd.op = "selectMode" /\ Settled)
    => (mode = lastCmd.arg /\ timeLeft = settings[mode] /\ ~isActive)

\* C2 (as claimed): in every committed render the remaining time is within
\* 0 .. the configured duration of the active mode.
C2_RemainingInRange == 0 <= timeLeft /\ timeLeft <= settings[mode]

\* C3 (as claimed): the completion reaction runs at most once per countdown,
\* and after it (the remaining time is 0 and no command's reset is queued) no
\* clock tick or React task changes the session, except that isRunning
\* becomes false once, until the next command.
C3_CompletionOnce ==
  /\ [](completions <= 1)
  /\ [][(completions = 1 /\ timeLeft = 0 /\ ~qTimeLeft.set /\ TaskStep)
          => (/\ timeLeft' = 0
              /\ completions' = 1
              /\ (isActive' => isActive)
              /\ mode' = mode /\ settings' = settings)]_vars

\* C4 (as claimed): a tick is delivered only while the countdown is running,
\* and the render of one tick delivered at remaining time n > 0 commits n - 1
\* and leaves the mode and the durations unchanged.
C4_TickDecrementsByOne ==
  /\ [][Tick => isActive]_vars
  /\ [][(Render /\ isActive /\ timeLeft > 0 /\ qTimeLeft = QDecTime(NoTimeUpdate))
          => (timeLeft' = timeLeft - 1 /\ mode' = mode /\ settings' = settings)]_vars

\* C5 (as claimed): once applyConfig(c) has settled, the durations are c, the
\* remaining time is c[activeMode] and the countdown is not running.
C5_ApplyConfigResets ==
  (lastCmd.op = "applyConfig" /\ Settled)
    => (settings = lastCmd.arg /\ timeLeft = settings[mode] /\ ~isActive)

\* C6: after reset() the remaining time is the configured duration of the
\* active mode, the countdown is not running and no interval is left; reset()
\* leaves the mode and the durations unchanged; and a reset() after a reset()
\* changes nothing.
C6_ResetIdempotent ==
  /\ [](lastCmd.op = "reset"
          => (timeLeft = settings[mode] /\ ~isActive /\ Settled /\ liveIntervals = 0))
  /\ [][resetTimer => (mode' = mode /\ settings' = settings)]_vars
  /\ [][(resetTimer /\ lastCmd.op = "reset")
          => UNCHANGED <<mode, settings, timeLeft, isActive, showSettings, soundEnabled,
                         showThemes, themeId, localSettings, timerRef, liveIntervals, qTimeLeft, qIsActive,
                         pendingEffects>>]_vars

\* reset() was called twice in a row
C6_Witness == lastCmd.op = "reset" /\ lastCmd.twice /\ timeLeft = settings[mode] /\ ~isActive

\* the countdown was started from the full duration and no command came since
C7_Uninterrupted ==
  /\ lastCmd.op = "toggleRun"
  /\ ticks = settings[mode] - ApplyTime(qTimeLeft, timeLeft)
  /\ ~(~isActive /\ timeLeft > 0)

C7_Start == C7_Uninterrupted /\ isActive /\ ticks = 0 /\ Settled /\ settings[mode] < MaxElapsed

C7_Done ==
  /\ timeLeft = 0 /\ ~isActive /\ completions = 1 /\ ticks = settings[mode]
  /\ Settled /\ liveIntervals = 0

FieldOK(f) == f = <<>> \/ (Len(f) = 1 /\ f[1] >= 0)

\* the number a field of the form counts for
Entry(f) == IF f = <<>> THEN 0 ELSE f[1]

\* C8: the fields of the form hold non-negative numbers or are empty; a save
\* stores minutes * 60 + seconds for each mode when that is > 0 and the
\* built-in default of the mode when it is 0; every stored duration is >= 1.
C8_SaveNormalizes ==
  /\ [](\A k \in Modes : settings[k] >= 1)
  /\ [](showSettings => \A k \in Modes : FieldOK(localSettings[k].m) /\ FieldOK(localSettings[k].s))
  /\ [][handleSave
          => \A k \in Modes :
               LET total == Entry(localSettings[k].m) * 60 + Entry(localSettings[k].s)
                   builtin == CASE k = "pomodoro" -> 1500 [] k = "shortBreak" -> 300
                                [] k = "longBreak" -> 900
               IN settings'[k] = IF total > 0 THEN total ELSE builtin]_vars

\* empty minutes and 2 seconds were saved for Focus
C8_Witness == lastCmd.op = "applyConfig" /\ settings.pomodoro = 2 /\ settings.shortBreak = 300

\* the typed value parses to a negative number
IsNegative(value) == ParseInt(value) # <<>> /\ ParseInt(value)[1] < 0

ProgressNum == settings[mode] - timeLeft
ProgressDen == settings[mode]

\* C10 (as claimed): in every committed render the denominator of progress is
\* not 0 and progress is within 0 .. 1, and the render of ticks does not
\* decrease progress.
C10_ProgressInUnitInterval ==
  /\ [](ProgressDen # 0 /\ 0 <= ProgressNum /\ ProgressNum <= ProgressDen)
  /\ [][(Render /\ ~qTimeLeft.set)
          => (ProgressNum' * ProgressDen >= ProgressNum * ProgressDen')]_vars

\* the last command cancels the countdown; selecting a mode is taken as
\* cancelling only once its reset is queued or rendered (selecting the mode
\* that is already active is the case of C1)
Cancelled ==
  \/ lastCmd.op \in {"reset", "applyConfig"}
  \/ lastCmd.op = "selectMode" /\ (qTimeLeft.set \/ ~isActive)

\* C11 (as claimed): after a command that cancels a running countdown no
\* callback of the interval that was running before the command runs, and
\* once the command has settled the remaining time is the configured
\* duration of the active mode and the countdown is not running.
C11_NoStaleTick ==
  /\ [][Tick => ~Cancelled]_vars
  /\ []((Cancelled /\ Settled) => (timeLeft = settings[mode] /\ ~isActive))

\* a completion reaction is due: the effects of a commit with isActive and
\* timeLeft = 0 are pending
CompletionDue == "timer" \in pendingEffects /\ isActive /\ timeLeft = 0

\* C12: while the sound is disabled no step plays a tone (no audio call is
\* made: none fails), and a completion
\* that is due then still takes effect: the reaction runs once, isRunning is
\* set to false, the remaining time stays 0 and no interval is left.
C12_SilentCompletion ==
  /\ [][(~soundEnabled /\ ~soundEnabled')
          => (tones' <= tones /\ audioErrors' <= audioErrors)]_vars
  /\ [][(FlushEffects /\ CompletionDue /\ ~soundEnabled)
          => (/\ completions' = completions + 1
              /\ tones' = tones
              /\ qIsActive' = "false"
              /\ timeLeft' = 0
              /\ liveIntervals' = 0)]_vars
  /\ []((~soundEnabled /\ C7_Uninterrupted /\ ticks = settings[mode] /\ Settled)
         => (timeLeft = 0 /\ ~isActive /\ completions = 1))

\* a countdown of 2 seconds ended with the sound disabled and without a tone
C12_Witness ==
  /\ ~soundEnabled /\ C7_Uninterrupted /\ C7_Done /\ ticks = 2
  /\ tones = 0 /\ audioErrors = 0

\* what the session keeps of the record r of an effect run
SessionOf(r) == <<r.timerRef, r.liveIntervals, r.qTimeLeft, r.qIsActive, r.completions>>

\* the pending effects of the last commit, run with audio calls that throw or
\* do not
FlushWith(throws) ==
  FlushPassive(pendingEffects, [Rec EXCEPT !.audioThrows = throws],
               mode, settings, timeLeft, isActive, soundEnabled)

\* C13: no error escapes an effect; a completion whose audio calls throw
\* leaves the session as a completion whose audio calls succeed does
\* (isRunning set to false, the interval cleared, the remaining time 0), only
\* the tone is missing and the failure is logged; and the countdown that ends so is in the state of a
\* completed countdown, from which the commands act (C6, C16).
C13_AudioFailureCaught ==
  /\ [](~uncaught)
  /\ [](CompletionDue
         => (/\ SessionOf(FlushWith(TRUE)) = SessionOf(FlushWith(FALSE))
             /\ FlushWith(TRUE).qIsActive = "false"
             /\ FlushWith(TRUE).liveIntervals = 0
             /\ FlushWith(TRUE).completions = completions + 1
             /\ FlushWith(TRUE).tones = tones
             /\ FlushWith(TRUE).audioErrors = audioErrors + (IF soundEnabled THEN 1 ELSE 0)))
  /\ [](tones + audioErrors <= completions)
  /\ []((C7_Uninterrupted /\ ticks = settings[mode] /\ Settled) => C7_Done)

\* a countdown of 2 seconds ended with the failure logged and no tone
C13_Witness ==
  C7_Uninterrupted /\ C7_Done /\ ticks = 2 /\ tones = 0 /\ audioErrors = 1

\* C14 (as claimed): the session starts idle in Focus with 1500 seconds, and
\* in every settled state a running countdown has a remaining time > 0 and a
\* countdown that is not running has a remaining time within 0 .. the
\* configured duration of the active mode.
C14_SettledStates ==
  /\ (mode = "pomodoro" /\ timeLeft = 1500 /\ ~isActive)
  /\ [](Settled => IF isActive THEN timeLeft > 0
                   ELSE 0 <= timeLeft /\ timeLeft <= settings[mode])

\* the countdown is paused: stopped by toggleRun() with time remaining
Paused == lastCmd.op = "toggleRun" /\ ~isActive /\ timeLeft > 0

\* C15: toggleRun() flips isRunning and leaves the mode and the durations
\* unchanged; it commits the remaining time that was pending (the ticks
\* delivered before it), and nothing else when the session is settled; a
\* paused countdown has no interval and no pending task, so that it keeps
\* its remaining time n until the next command; and toggleRun() on it
\* starts one interval at n.
C15_ToggleKeepsRemaining ==
  /\ [][toggleTimer
          => (/\ isActive' = ~isActive
              /\ mode' = mode /\ settings' = settings
              /\ ApplyTime(qTimeLeft', timeLeft') = ApplyTime(qTimeLeft, timeLeft)
              /\ (Settled => timeLeft' = timeLeft))]_vars
  /\ [](Paused => (Settled /\ liveIntervals = 0))
  /\ [][(Paused /\ TaskStep) => FALSE]_vars
  /\ [][(Paused /\ toggleTimer)
          => (isActive' /\ timeLeft' = timeLeft /\ liveIntervals' = 1 /\ QueueEmpty')]_vars

\* a countdown paused at 1499, then resumed, has counted down to 1498
C15_Witness ==
  /\ lastCmd.op = "toggleRun" /\ lastCmd.twice /\ isActive
  /\ settings[mode] = 1500 /\ timeLeft = 1498 /\ ticks = 1

\* toggleRun() came at remaining time 0, a completion ran since, and no tick
C16_Restarted ==
  lastCmd.op = "toggleRun" /\ ticks = 0 /\ timeLeft = 0 /\ completions = 1

\* C16: toggleRun() in the finished state sets isRunning, creates no
\* interval, and runs the completion reaction once, which resets isRunning;
\* the remaining time stays 0; and isRunning does return to false, at
\* remaining time 0 with one completion, unless another command comes first.
C16_ToggleWhenFinished ==
  /\ [][(toggleTimer /\ timeLeft = 0 /\ ~isActive /\ Settled)
          => (/\ isActive' /\ timeLeft' = 0 /\ liveIntervals' = 0
              /\ completions' = 1 /\ qIsActive' = "false" /\ ~qTimeLeft'.set)]_vars
  /\ [](C16_Restarted => (liveIntervals = 0 /\ ~qTimeLeft.set /\ qTimeLeft.dec = 0))
  /\ [][(C16_Restarted /\ TaskStep)
          => (timeLeft' = 0 /\ completions' = 1 /\ liveIntervals' = 0)]_vars
  /\ ((C16_Restarted /\ isActive)
        ~> ((~isActive /\ timeLeft = 0 /\ completions = 1) \/ ~C16_Restarted))

\* toggleRun() in the finished state set isRunning and the completion
\* reaction ran: its setIsActive(false) is queued
C16_Witness ==
  /\ C16_Restarted /\ isActive /\ qIsActive = "false" /\ pendingEffects = {}
  /\ liveIntervals = 0 /\ settings[mode] = 2

\* C17: at most one interval is live, and timerRef holds it; when no effect
\* of a commit is pending, an interval is live exactly if the committed
\* render has isRunning and a remaining time > 0 (it is created for such a
\* render only, and cleared by the cleanup that runs for the next one); no
\* interval is left once the session is settled and not running.
C17_SingleInterval ==
  /\ [](liveIntervals \in {0, 1} /\ (liveIntervals = 1 <=> timerRef = "live"))
  /\ [](pendingEffects = {} => (liveIntervals = 1 <=> (isActive /\ timeLeft > 0)))
  /\ [][liveIntervals' > liveIntervals => (isActive' /\ timeLeft' > 0)]_vars

\* a second interval was created after the first one was cleared
C17_Witness ==
  /\ liveIntervals = 1 /\ lastCmd.op = "toggleRun" /\ lastCmd.twice = FALSE
  /\ isActive /\ timeLeft = 1498 /\ pendingEffects = {} /\ ticks = 2

\* the session part of the result c of a click
ClickSession(c) ==
  <<c.mode, c.settings, c.timeLeft, c.isActive, SessionOf(c.r)>>

\* the handlers that can be clicked in this state, as commands or not
HandlersNow ==
  LET hs == {NoWrite, ToggleWrites, ResetWrites, SoundWrites,
             SaveWrites(finalSettings(localSettings))}
            \cup {SelectModeWrites(m) : m \in Modes}
  IN {[h EXCEPT !.command = b] : h \in hs, b \in BOOLEAN}

\* the handler h in a render in which soundEnabled has the other value
OtherSound(h) == [h EXCEPT !.sound = ~h.sound]

\* the session state
SessionVars ==
  <<mode, settings, timeLeft, isActive, timerRef, liveIntervals, qTimeLeft, qIsActive,
    pendingEffects, completions>>

\* C18: the session state does not depend on the sound preference: in every
\* reachable state, every click and every flush of effects gives the same
\* session state (mode, durations, remaining time, isRunning, interval,
\* queued updates, completions) with soundEnabled true as with soundEnabled
\* false, and the next render is the same; the click that toggles the sound
\* does to the session what a click that writes nothing does: it changes
\* nothing in a settled session, and a running countdown keeps its interval.
C18_SoundIndependent ==
  /\ [](\A h \in HandlersNow, throws \in BOOLEAN :
          ClickSession(ClickResult(h, soundEnabled, throws))
            = ClickSession(ClickResult(OtherSound(h), ~soundEnabled, throws)))
  /\ [](\A throws \in BOOLEAN :
          SessionOf(FlushPassive(pendingEffects, [Rec EXCEPT !.audioThrows = throws],
                                 mode, settings, timeLeft, isActive, TRUE))
            = SessionOf(FlushPassive(pendingEffects, [Rec EXCEPT !.audioThrows = throws],
                                     mode, settings, timeLeft, isActive, FALSE)))
  /\ [](\A throws \in BOOLEAN :
          ClickSession(ClickResult(SoundWrites, soundEnabled, throws))
            = ClickSession(ClickResult(NoWrite, soundEnabled, throws)))
  /\ [][ToggleSound
          => (/\ mode' = mode /\ settings' = settings
              /\ ApplyTime(qTimeLeft', timeLeft') = ApplyTime(qTimeLeft, timeLeft)
              /\ (Settled => UNCHANGED SessionVars)
              /\ ((isActive' /\ timeLeft' > 0) => liveIntervals' = 1))]_vars

\* the sound was turned off while the countdown ran, which went on to 1498
C18_Witness ==
  /\ ~soundEnabled /\ isActive /\ liveIntervals = 1 /\ lastCmd.op = "toggleRun"
  /\ settings[mode] = 1500 /\ timeLeft = 1498 /\ ticks = 2 /\ Settled

\* a click on the page that is not a command of the session
PageClick ==
  OpenSettings \/ handleChange \/ CloseSettings \/ ToggleThemes \/ SelectTheme

\* a countdown is running: isRunning, time remaining, and its interval live
Running ==
  /\ isActive /\ ApplyActive(qIsActive, isActive)
  /\ timeLeft > 0 /\ ApplyTime(qTimeLeft, timeLeft) > 0
  /\ liveIntervals = 1

\* C19: opening the settings form, editing it, closing it, opening the theme
\* panel and choosing a theme leave the mode and the durations unchanged and
\* write nothing to the remaining time or isRunning (they commit what was
\* pending, and change nothing in a settled session); a running countdown
\* keeps running with its interval; and the durations change by Save only.
C19_PageClicksKeepSession ==
  /\ [][PageClick
          => (/\ mode' = mode /\ settings' = settings
              /\ ApplyTime(qTimeLeft', timeLeft') = ApplyTime(qTimeLeft, timeLeft)
              /\ (Settled => UNCHANGED SessionVars)
              /\ (Running => (isActive' /\ liveIntervals' = 1)))]_vars
  /\ [][settings' # settings => handleSave]_vars

\* with the countdown running, a theme was chosen and the form was opened and
\* edited; the countdown has gone on to 1498
C19_Witness ==
  /\ showSettings /\ lastChange.typed = <<"2">> /\ localSettings.pomodoro.s = <<2>>
  /\ themeId = "zen" /\ settings = DEFAULT_SETTINGS
  /\ isActive /\ liveIntervals = 1 /\ timeLeft = 1498 /\ ticks = 2

\* C20: a form that shows the saved durations (opened and not edited) saves
\* the same durations: minutes * 60 + seconds of the split of d is d, for
\* every d >= 1, and the default is never taken.
C20_FormRoundTrip ==
  /\ [](showSettings => (/\ localSettings = InitLocalSettings(settings)
                         /\ finalSettings(localSettings) = settings
                         /\ \A k \in Modes : localSettings[k].s[1] < 60))
  /\ [][handleSave => settings' = settings]_vars

\* 91 minutes and 1 second for Focus (the form suggests at most 90 minutes)
\* were saved again from the form
C20_Witness ==
  /\ lastCmd.op = "applyConfig" /\ lastCmd.arg = settings
  /\ settings.pomodoro = 91 * 60 + 1

====
